---- MODULE Spec2Model ----
(***************************************************************************)
(* A model of the ssl_cert extension item of m_sslinfo (SSLCertExt,        *)
(* UserCertificateAPIImpl, ModuleSSLInfo), of its peer-sync encoding, of   *)
(* the event pipeline its handlers are bound into and of the configuration *)
(* reload declared in configreader.h.                                      *)
(*                                                                         *)
(* Strings are sequences of one-character strings, so that getline, find   *)
(* and concatenation are computed character by character.                  *)
(***************************************************************************)
EXTENDS Integers, Sequences, FiniteSets, TLC

\* ------------------------------------------------------------------ bounds
\* Number of users (extensible entities).
NumUsers == 2
\* Number of ssl_cert objects that can ever be allocated (addresses are not reused).
MaxRecs == 3

Users == 1..NumUsers
Recs == 1..MaxRecs
\* The null ssl_cert pointer.
NULL == 0

VARIABLES
    slot,        \* slot[u]: the ssl_cert* stored under "ssl_cert" on user u, or NULL
    nossl,       \* nossl[u]: the value stored under "no_ssl_cert" on user u (0: unset)
    refcount,    \* refcount[r]: refcountbase::refcount of ssl_cert r
    status,      \* status[r]: "live" (a constructed ssl_cert) or "free" (no object there)
    cert,        \* cert[r]: the fields of ssl_cert r (NewCert where no object is)
    ub,          \* TRUE once memory that holds no ssl_cert was used as one, or deleted
    local,       \* local[u]: IS_LOCAL(u)
    tcert,       \* tcert[u]: the certificate the TLS transport of u holds, or NULL
    registered,  \* TRUE while the module's extension items are registered
    last         \* the last operation: its name, and whether it deleted an ssl_cert

extVars == <<slot, nossl, refcount, status, cert, ub, local, tcert, registered, last>>

\* The encoding and decoding of one certificate, outside any user.
VARIABLES
    cmode,       \* "encdec": a certificate is encoded, then decoded; "decenc": a
                 \* peer-sync value is decoded, then encoded; "off": neither
    cstep,       \* how many of the two conversions are done
    recIn,       \* encdec: the certificate that is encoded
    wireIn,      \* decenc: the peer-sync value that is decoded
    recOut,      \* the fields FromNetwork left in its ssl_cert
    wireOut      \* the string ToNetwork returned

codecVars == <<cmode, cstep, recIn, wireIn, recOut, wireOut>>

\* The listeners of one event kind, and one raise of it.
VARIABLES
    bound,       \* the listener bindings, in the order raise invokes them
    epc,         \* "idle", "raising" or "done"
    eidx,        \* raising: the position in bound of the listener to invoke next
    invoked,     \* the registration numbers of the listeners this raise has invoked
    verdict,     \* what the last raise returned ("none" until it has)
    payload      \* the event payload: 0, or the number of the listener that replaced it

evVars == <<bound, epc, eidx, invoked, verdict, payload>>

\* The published configuration and one reload of it.
VARIABLES
    current,     \* the ServerConfig that is published (ServerInstance->Config)
    candidate,   \* the ServerConfig a reload in flight is building, or NoConfig
    errstr,      \* ServerConfig::errstr of the candidate: the accumulated errors
    valid,       \* ServerConfig::valid of the candidate
    rpc,         \* "idle", "read" (parsed), "checked" (cross-checked)
    outcome,     \* what the last reload returned: "none", "ok" or its error list
    inflight,    \* the number of reloads that have started and not finished
    refused,     \* TRUE once a reload was refused because this one is in flight
    curId,       \* the snapshot object that is published (0: none)
    snapCfg,     \* snapCfg[i]: the configuration snapshot object i holds
    snapRefs,    \* snapRefs[i]: the references to snapshot object i
    snapLive,    \* snapLive[i]: snapshot object i exists
    reader       \* reader[k]: the snapshot object reader k holds a reference to (0: none)

cfgVars == <<current, candidate, errstr, valid, rpc, outcome,
             inflight, refused, curId, snapCfg, snapRefs, snapLive, reader>>

\* The extension registry.
VARIABLES
    registry,    \* registry[n]: the descriptor registered under name n, or NoDescriptor
    regRet       \* what the last register returned: "none", "ok" or "NameCollision"

regVars == <<registry, regRet>>

\* The users as the module's handlers see them, and what the last handler did.
VARIABLES
    tls,         \* tls[u]: SSLIOHook::IsSSL(&u->eh) is not null
    oper,        \* oper[u]: u->IsOper()
    operonly,    \* <sslinfo operonly>
    hout         \* the handler that has just run: its name, its arguments, its
                 \* result, the lines it wrote, and the oper blocks it called
                 \* user->Oper with (NoOutput once the caller has taken them)

hVars == <<tls, oper, operonly, hout>>

\* The length limits of one configuration (ServerConfig::Limits).
VARIABLES
    Limits,      \* the ServerLimits object: its nine fields
    limitsTag,   \* the values the limits were configured with
    finalised    \* how many times Finalise has run on this ServerLimits

limVars == <<Limits, limitsTag, finalised>>

vars == <<extVars, codecVars, evVars, cfgVars, regVars, hVars, limVars>>

\* ------------------------------------------------------------ ssl_cert
\* A newly constructed ssl_cert: empty strings and the constructor's flags.
NewCert ==
    [invalid |-> TRUE, trusted |-> FALSE, revoked |-> FALSE, unknownsigner |-> TRUE,
     error |-> <<>>, fingerprint |-> <<>>, dn |-> <<>>, issuer |-> <<>>]

\* ------------------------------------------------------------- the heap
\* A heap value h gathers what the extension item's operations read and write:
\* h.slot, h.refcount, h.status, h.ub.
Heap == [slot |-> slot, refcount |-> refcount, status |-> status, ub |-> ub]

\* Any use of an ssl_cert that is not live is undefined behaviour.
Touch(h, r) == [h EXCEPT !.ub = @ \/ h.status[r] # "live"]

\* refcountbase::refcount_inc
refcount_inc(h, r) == [Touch(h, r) EXCEPT !.refcount[r] = @ + 1]

\* refcountbase::refcount_dec: the heap after the decrement; DecIsZero is its result.
refcount_dec(h, r) == [Touch(h, r) EXCEPT !.refcount[r] = @ - 1]

DecIsZero(h, r) == h.refcount[r] - 1 = 0

\* delete old
delete(h, r) == [Touch(h, r) EXCEPT !.status[r] = "free"]

\* new ssl_cert: the object at address r comes to life with a reference count of 0.
new(h, r) == [h EXCEPT !.status[r] = "live", !.refcount[r] = 0]

\* Extensible::GetRaw, SetRaw (its result is OldRaw) and UnsetRaw (likewise).
GetRaw(h, u) == h.slot[u]

SetRaw(h, u, r) == [h EXCEPT !.slot[u] = r]

UnsetRaw(h, u) == [h EXCEPT !.slot[u] = NULL]

\* -------------------------------------------------------- SSLCertExt
\* SSLCertExt::get
get(h, u) == GetRaw(h, u)

\* Delete with the test of refcount_dec's result lost: the ssl_cert is deleted
\* whatever its count.
Delete_Always(h, item) ==
    IF item # NULL THEN delete(refcount_dec(h, item), item) ELSE h

\* Delete that drops the pointer without releasing its reference.
Delete_Leak(h, item) == h

\* SSLCertExt::Delete
Delete(h, item) ==
    IF item # NULL
    THEN IF DecIsZero(h, item)
         THEN delete(refcount_dec(h, item), item)
         ELSE refcount_dec(h, item)
    ELSE h

\* set that releases the old payload before it takes its reference on the new one.
set_ReleaseFirst(h, u, value) ==
    LET old == GetRaw(h, u)
        h1 == IF old # NULL
              THEN IF DecIsZero(h, old)
                   THEN delete(refcount_dec(h, old), old)
                   ELSE refcount_dec(h, old)
              ELSE h
    IN  SetRaw(refcount_inc(h1, value), u, value)

\* SSLCertExt::set
set(h, u, value) ==
    LET h1 == refcount_inc(h, value)
        old == GetRaw(h1, u)
        h2 == SetRaw(h1, u, value)
    IN  IF old # NULL
        THEN IF DecIsZero(h2, old)
             THEN delete(refcount_dec(h2, old), old)
             ELSE refcount_dec(h2, old)
        ELSE h2

\* unset that hands the payload on without releasing it.
unset_NoRelease(h, u) == UnsetRaw(h, u)

\* SSLCertExt::unset
unset(h, u) == Delete(UnsetRaw(h, u), GetRaw(h, u))

\* ------------------------------------------------------------- strings
\* std::string::find(c) != npos
Contains(s, c) == \E i \in 1..Len(s) : s[i] = c

\* std::stringstream s(value): the buffer, the read position and the state bits.
stringstream(value) == [buf |-> value, pos |-> 1, eof |-> FALSE, fail |-> FALSE]

good(st) == ~st.eof /\ ~st.fail

\* The positions of delim at or after the read position.
DelimPositions(st, delim) == {i \in st.pos..Len(st.buf) : st.buf[i] = delim}

FirstDelim(st, delim) ==
    CHOOSE i \in DelimPositions(st, delim) : \A j \in DelimPositions(st, delim) : i <= j

\* std::getline(st, str, delim), the string it leaves in str: str itself when the
\* stream is not good (the sentry fails before str is erased), else the characters
\* up to the delimiter or the end of the buffer.
getline_str(st, str, delim) ==
    IF ~good(st) THEN str
    ELSE IF DelimPositions(st, delim) = {}
         THEN SubSeq(st.buf, st.pos, Len(st.buf))
         ELSE SubSeq(st.buf, st.pos, FirstDelim(st, delim) - 1)

\* std::getline(st, str, delim), the stream it leaves: the delimiter is extracted and
\* dropped; reaching the end sets eofbit; extracting nothing sets failbit.
getline(st, delim) ==
    IF ~good(st) THEN [st EXCEPT !.fail = TRUE]
    ELSE IF DelimPositions(st, delim) = {}
         THEN [st EXCEPT !.pos = Len(st.buf) + 1, !.eof = TRUE,
                         !.fail = (st.pos > Len(st.buf))]
         ELSE [st EXCEPT !.pos = FirstDelim(st, delim) + 1]

\* ---------------------------------------------------- the wire encoding
\* ssl_cert::GetMetaLine: the five-letter flag cluster, a space, and the error or
\* the fingerprint, the distinguished name and the issuer separated by spaces.
GetMetaLine(c) ==
    LET hasError == c.error # <<>>
        flags == << IF c.invalid THEN "v" ELSE "V",
                    IF c.trusted THEN "T" ELSE "t",
                    IF c.revoked THEN "R" ELSE "r",
                    IF c.unknownsigner THEN "s" ELSE "S",
                    IF hasError THEN "E" ELSE "e" >>
    IN  IF hasError
        THEN flags \o <<" ">> \o c.error
        ELSE flags \o <<" ">> \o c.fingerprint \o <<" ">> \o c.dn \o <<" ">> \o c.issuer

\* SSLCertExt::ToNetwork
ToNetwork(c) == GetMetaLine(c)

\* FromNetwork without the error form: the fields are always read as the triple.
ParseMetaLine_NoErrorForm(value) ==
    LET c0 == NewCert
        s0 == stringstream(value)
        v == getline_str(s0, <<>>, " ")
        s1 == getline(s0, " ")
        s2 == getline(s1, " ")
        s3 == getline(s2, " ")
    IN  [c0 EXCEPT !.invalid = Contains(v, "v"),
                   !.trusted = Contains(v, "T"),
                   !.revoked = Contains(v, "R"),
                   !.unknownsigner = Contains(v, "s"),
                   !.fingerprint = getline_str(s1, c0.fingerprint, " "),
                   !.dn = getline_str(s2, c0.dn, " "),
                   !.issuer = getline_str(s3, c0.issuer, "\n")]

\* FromNetwork that reads the issuer up to a space, like the fields before it.
ParseMetaLine_IssuerWord(value) ==
    LET c0 == NewCert
        s0 == stringstream(value)
        v == getline_str(s0, <<>>, " ")
        s1 == getline(s0, " ")
        s2 == getline(s1, " ")
        s3 == getline(s2, " ")
        flagged == [c0 EXCEPT !.invalid = Contains(v, "v"),
                              !.trusted = Contains(v, "T"),
                              !.revoked = Contains(v, "R"),
                              !.unknownsigner = Contains(v, "s")]
    IN  IF Contains(v, "E")
        THEN [flagged EXCEPT !.error = getline_str(s1, c0.error, "\n")]
        ELSE [flagged EXCEPT !.fingerprint = getline_str(s1, c0.fingerprint, " "),
                             !.dn = getline_str(s2, c0.dn, " "),
                             !.issuer = getline_str(s3, c0.issuer, " ")]

\* SSLCertExt::FromNetwork, lines 80-97: the fields the new ssl_cert ends with.
ParseMetaLine(value) ==
    LET c0 == NewCert
        s0 == stringstream(value)
        v == getline_str(s0, <<>>, " ")
        s1 == getline(s0, " ")
        s2 == getline(s1, " ")
        s3 == getline(s2, " ")
        flagged == [c0 EXCEPT !.invalid = Contains(v, "v"),
                              !.trusted = Contains(v, "T"),
                              !.revoked = Contains(v, "R"),
                              !.unknownsigner = Contains(v, "s")]
    IN  IF Contains(v, "E")
        THEN [flagged EXCEPT !.error = getline_str(s1, c0.error, "\n")]
        ELSE [flagged EXCEPT !.fingerprint = getline_str(s1, c0.fingerprint, " "),
                             !.dn = getline_str(s2, c0.dn, " "),
                             !.issuer = getline_str(s3, c0.issuer, "\n")]

\* SSLCertExt::FromNetwork on the heap: cert = new ssl_cert (at address r), then
\* set(container, cert), before anything of value is read.
FromNetwork(h, u, r) == set(new(h, r), u, r)

\* ------------------------------------------- UserCertificateAPIImpl
\* UserCertificateAPIImpl::SetCertificate (the log line writes no state)
SetCertificate(h, u, c) == set(h, u, c)

\* UserCertificateAPIImpl::GetCertificate, the pointer it returns.
GetCertificateRet(h, u) ==
    IF get(h, u) # NULL THEN get(h, u)
    ELSE IF ~local[u] \/ nossl[u] # 0 THEN NULL
    ELSE tcert[u]

\* GetCertificate that does not look at no_ssl_cert before it asks the transport.
GetCertificate_IgnoresNoSSL(h, u) ==
    IF get(h, u) # NULL THEN h
    ELSE IF ~local[u] THEN h
    ELSE IF tcert[u] = NULL THEN h
    ELSE SetCertificate(h, u, tcert[u])

\* GetCertificate that returns the transport's certificate without storing it.
GetCertificate_NoStore(h, u) == h

\* UserCertificateAPIImpl::GetCertificate, the heap it leaves: the transport's
\* certificate is stored on the user when the slot was empty.
GetCertificate(h, u) ==
    IF get(h, u) # NULL THEN h
    ELSE IF ~local[u] \/ nossl[u] # 0 THEN h
    ELSE IF tcert[u] = NULL THEN h
    ELSE SetCertificate(h, u, tcert[u])

\* UserCertificateAPIImpl::GetCertificate reaches its SetCertificate call.
GetCertificateSets(h, u) ==
    get(h, u) = NULL /\ local[u] /\ nossl[u] = 0 /\ tcert[u] # NULL

\* ------------------------------------------------ inputs of the model
\* Peer-sync values FromNetwork is given here: an empty one and a full form.
WireSamples ==
    { <<>>,
      <<"V", "T", "r", "S", "e", " ", "a", " ", "b", " ", "c">> }

\* The certificate a TLS transport presents: usable, CA-verified, fingerprint "a".
TransportCert ==
    [invalid |-> FALSE, trusted |-> TRUE, revoked |-> FALSE, unknownsigner |-> FALSE,
     error |-> <<>>, fingerprint |-> <<"a">>, dn |-> <<"b">>, issuer |-> <<"c">>]

\* The addresses new can return here: not live, and referred to by no slot or
\* transport (an address a dangling pointer refers to is not given out again, so
\* that the pointer stays recognisable).
Unused(r) ==
    /\ status[r] # "live"
    /\ \A u \in Users : slot[u] # r /\ tcert[u] # r

HasUnused == \E r \in Recs : Unused(r)

NewAddr == CHOOSE r \in Recs : Unused(r) /\ \A q \in Recs : Unused(q) => r <= q

\* Whether an operation taking heap h to heap g deleted an ssl_cert.
Freed(h, g) == \E r \in Recs : h.status[r] = "live" /\ g.status[r] = "free"

Op(name, h, g) == [op |-> name, freed |-> Freed(h, g)]

NoOp == [op |-> "none", freed |-> FALSE]

\* No handler has just run.
NoOutput == [h |-> "none", args |-> <<>>, ret |-> "none", lines |-> <<>>, opers |-> {}]

\* ---------------------------------------------------------------- Init
\* After construction and connection: the users are in turn local and remote, a
\* local user's transport holds a certificate (one reference) or none, and no slot
\* is set.
InitExt ==
    /\ local = [u \in Users |-> u % 2 = 1]
    /\ tcert \in [Users -> {NULL} \cup Recs]
    /\ \A u \in Users : tcert[u] \in {NULL, u} /\ (~local[u] => tcert[u] = NULL)
    /\ slot = [u \in Users |-> NULL]
    /\ nossl = [u \in Users |-> 0]
    /\ refcount = [r \in Recs |-> IF r \in Users /\ tcert[r] = r THEN 1 ELSE 0]
    /\ status = [r \in Recs |-> IF r \in Users /\ tcert[r] = r THEN "live" ELSE "free"]
    /\ cert = [r \in Recs |-> IF r \in Users /\ tcert[r] = r THEN TransportCert ELSE NewCert]
    /\ ub = FALSE
    /\ registered = TRUE
    /\ last = NoOp

\* The state an operation leaves: heap h and certificate fields c, where only a live
\* ssl_cert has fields.
Commit(h, c) ==
    /\ slot' = h.slot
    /\ refcount' = h.refcount
    /\ status' = h.status
    /\ ub' = h.ub
    /\ cert' = [r \in Recs |-> IF h.status[r] = "live" THEN c[r] ELSE NewCert]

\* ------------------------------------------------------------- actions
\* sslapi.SetCertificate(user, cert) with a certificate the caller holds.
DoSetCertificate(u, c) ==
    /\ registered
    /\ status[c] = "live"
    /\ Commit(SetCertificate(Heap, u, c), cert)
    /\ last' = Op("SetCertificate", Heap, SetCertificate(Heap, u, c))
    /\ UNCHANGED <<nossl, local, tcert, registered>>
    /\ UNCHANGED <<codecVars, evVars, cfgVars, regVars, hVars, limVars>>

\* sslext.unset(user)
DoUnset(u) ==
    /\ registered
    /\ Commit(unset(Heap, u), cert)
    /\ last' = Op("unset", Heap, unset(Heap, u))
    /\ UNCHANGED <<nossl, local, tcert, registered>>
    /\ UNCHANGED <<codecVars, evVars, cfgVars, regVars, hVars, limVars>>

\* sslext.FromNetwork(user, value), called by the peer-sync decoder.
DoFromNetwork(u, value) ==
    /\ registered
    /\ HasUnused
    /\ Commit(FromNetwork(Heap, u, NewAddr), [cert EXCEPT ![NewAddr] = ParseMetaLine(value)])
    /\ last' = Op("FromNetwork", Heap, FromNetwork(Heap, u, NewAddr))
    /\ UNCHANGED <<nossl, local, tcert, registered>>
    /\ UNCHANGED <<codecVars, evVars, cfgVars, regVars, hVars, limVars>>

\* sslapi.GetCertificate(user)
DoGetCertificate(u) ==
    /\ registered
    /\ Commit(GetCertificate(Heap, u), cert)
    /\ last' = Op("GetCertificate", Heap, GetCertificate(Heap, u))
    /\ UNCHANGED <<nossl, local, tcert, registered>>
    /\ UNCHANGED <<tls, oper, operonly>>
    /\ hout' = NoOutput
    /\ UNCHANGED <<codecVars, evVars, cfgVars, regVars, limVars>>

\* The sweep of one extension item over every user (users 1..n), as its removal from
\* the registry performs it: the slot is emptied and the item's Delete gets the payload.
RECURSIVE Sweep(_, _)
Sweep(h, n) ==
    IF n = 0 THEN h
    ELSE LET h1 == Sweep(h, n - 1)
         IN  Delete(UnsetRaw(h1, n), GetRaw(h1, n))

\* The module is unloaded: ssl_cert and no_ssl_cert are swept from every user.
Unregister ==
    /\ registered
    /\ registered' = FALSE
    /\ Commit(Sweep(Heap, NumUsers), cert)
    /\ nossl' = [u \in Users |-> 0]
    /\ last' = Op("Unregister", Heap, Sweep(Heap, NumUsers))
    /\ UNCHANGED <<local, tcert>>
    /\ UNCHANGED <<codecVars, evVars, cfgVars, regVars, hVars, limVars>>

\* The module is loaded again.
Register ==
    /\ ~registered
    /\ registered' = TRUE
    /\ last' = Op("Register", Heap, Heap)
    /\ UNCHANGED <<slot, nossl, refcount, status, cert, ub, local, tcert>>
    /\ UNCHANGED <<codecVars, evVars, cfgVars, regVars, hVars, limVars>>

\* cert->error of the certificate OnWebIRCAuth makes up.
WebIRCError ==
    <<
       "W", "e", "b", "I", "R", "C", " ", "u", "s", "e", "r", "s",
       " ", "c", "a", "n", " ", "n", "o", "t", " ", "s", "p", "e",
       "c", "i", "f", "y", " ", "v", "a", "l", "i", "d", " ", "c",
       "e", "r", "t", "s", " ", "y", "e", "t" >>

WebIRCCert ==
    [NewCert EXCEPT !.error = WebIRCError, !.invalid = TRUE, !.revoked = TRUE,
                    !.trusted = FALSE, !.unknownsigner = TRUE]

\* The connection flags of a WebIRC gateway: no flag map, a map without "secure",
\* a map with it.
FlagMaps == {"null", "insecure", "secure"}

\* OnWebIRCAuth that flags the user without removing the certificate.
WebIRCAuthHeap_KeepsCert(h, u, flags, r) ==
    IF flags = "null" THEN h
    ELSE IF GetCertificateRet(h, u) = NULL THEN GetCertificate(h, u)
    ELSE IF flags = "insecure" THEN GetCertificate(h, u)
    ELSE SetCertificate(new(GetCertificate(h, u), r), u, r)

\* ModuleSSLInfo::OnWebIRCAuth, the heap it leaves (r: the address its new returns).
WebIRCAuthHeap(h, u, flags, r) ==
    IF flags = "null" THEN h
    ELSE IF GetCertificateRet(h, u) = NULL THEN GetCertificate(h, u)
    ELSE IF flags = "insecure" THEN unset(GetCertificate(h, u), u)
    ELSE SetCertificate(new(GetCertificate(h, u), r), u, r)

\* ModuleSSLInfo::OnWebIRCAuth
OnWebIRCAuth(u, flags) ==
    /\ registered
    /\ local[u]
    /\ flags = "secure" => HasUnused
    /\ LET r == IF HasUnused THEN NewAddr ELSE NULL
           g == WebIRCAuthHeap(Heap, u, flags, r)
           acts == flags # "null" /\ GetCertificateRet(Heap, u) # NULL
       IN  /\ Commit(g, IF acts /\ flags = "secure"
                        THEN [cert EXCEPT ![r] = WebIRCCert] ELSE cert)
           /\ nossl' = IF acts /\ flags = "insecure"
                       THEN [nossl EXCEPT ![u] = 1] ELSE nossl
           /\ last' = Op("OnWebIRCAuth", Heap, g)
    /\ UNCHANGED <<local, tcert, registered>>
    /\ UNCHANGED <<tls, oper, operonly>>
    /\ hout' = NoOutput
    /\ UNCHANGED <<codecVars, evVars, cfgVars, regVars, limVars>>

NextExt ==
    \/ \E u \in Users, c \in Recs : DoSetCertificate(u, c)
    \/ \E u \in Users : DoUnset(u)
    \/ \E u \in Users, value \in WireSamples : DoFromNetwork(u, value)
    \/ \E u \in Users : DoGetCertificate(u)
    \/ \E u \in Users, flags \in FlagMaps : OnWebIRCAuth(u, flags)
    \/ Unregister
    \/ Register


\* The other parts of the model at rest.
IdleExt ==
    /\ slot = [u \in Users |-> NULL]
    /\ nossl = [u \in Users |-> 0]
    /\ refcount = [r \in Recs |-> 0]
    /\ status = [r \in Recs |-> "free"]
    /\ cert = [r \in Recs |-> NewCert]
    /\ ub = FALSE
    /\ local = [u \in Users |-> FALSE]
    /\ tcert = [u \in Users |-> NULL]
    /\ registered = FALSE
    /\ last = NoOp

\* The descriptor of a name that is not registered.
NoDescriptor == [owner |-> "", kind |-> ""]

\* The names of extension items: those of this module, and one of another module.
ExtNames == {"ssl_cert", "no_ssl_cert", "other"}

IdleRegistry ==
    /\ registry = [n \in ExtNames |-> NoDescriptor]
    /\ regRet = "none"

IdleHandlers ==
    /\ tls = [u \in Users |-> tcert[u] # NULL]
    /\ oper = [u \in Users |-> FALSE]
    /\ operonly = FALSE
    /\ hout = NoOutput

\* What the constructor of ServerLimits stores.
ServerLimits ==
    [NickMax |-> 31, ChanMax |-> 64, MaxModes |-> 20, IdentMax |-> 12,
     MaxQuit |-> 255, MaxTopic |-> 307, MaxKick |-> 255, MaxGecos |-> 128,
     MaxAway |-> 200]

IdleLimits ==
    /\ Limits = ServerLimits
    /\ limitsTag = ServerLimits
    /\ finalised = 0

IdleCodec ==
    /\ cmode = "off"
    /\ cstep = 0
    /\ recIn = NewCert
    /\ wireIn = <<>>
    /\ recOut = NewCert
    /\ wireOut = <<>>

\* ================================== encoding and decoding a certificate
\* The longest text that follows the flag cluster in a peer-sync value.
MaxTail == 6

\* The strings over alphabet A of at most n characters.
Strs(A, n) == UNION {[1..k -> A] : k \in 0..n}

\* The flag clusters GetMetaLine writes, and some it does not: none, a lone "E",
\* and flags in another order without the error letter.
FlagClusters ==
    {<<a, b, c, d, e>> : a \in {"v", "V"}, b \in {"T", "t"}, c \in {"R", "r"},
                         d \in {"s", "S"}, e \in {"E", "e"}}
    \cup {<<>>, <<"E">>, <<"R", "T", "s", "v">>}

\* The peer-sync values FromNetwork is given: a cluster, then any text of spaces,
\* newlines and letters.
WireInputs == {c \o t : c \in FlagClusters, t \in Strs({" ", "\n", "a"}, MaxTail)}

\* The strings a locally set certificate holds: none, a single word, two words.
NameSamples == {<<>>, <<"a">>, <<"a", " ", "b">>}

FingerprintSamples == {<<>>, <<"a">>}

\* The certificates that can be set locally.
LocalCerts ==
    [invalid : BOOLEAN, trusted : BOOLEAN, revoked : BOOLEAN, unknownsigner : BOOLEAN,
     error : NameSamples, fingerprint : FingerprintSamples,
     dn : NameSamples, issuer : NameSamples]

InitCodec ==
    /\ cstep = 0
    /\ recOut = NewCert
    /\ wireOut = <<>>
    /\ \/ cmode = "encdec" /\ recIn \in LocalCerts /\ wireIn = <<>>
       \/ cmode = "decenc" /\ wireIn \in WireInputs /\ recIn = NewCert

\* ToNetwork on the certificate that was set locally.
EncodeLocal ==
    /\ cmode = "encdec" /\ cstep = 0
    /\ wireOut' = ToNetwork(recIn)
    /\ cstep' = 1
    /\ UNCHANGED <<cmode, recIn, wireIn, recOut>>
    /\ UNCHANGED <<extVars, evVars, cfgVars, regVars, hVars, limVars>>

\* FromNetwork, at the peer, on what ToNetwork returned.
DecodeEncoded ==
    /\ cmode = "encdec" /\ cstep = 1
    /\ recOut' = ParseMetaLine(wireOut)
    /\ cstep' = 2
    /\ UNCHANGED <<cmode, recIn, wireIn, wireOut>>
    /\ UNCHANGED <<extVars, evVars, cfgVars, regVars, hVars, limVars>>

\* FromNetwork on a value a peer sent.
DecodeWire ==
    /\ cmode = "decenc" /\ cstep = 0
    /\ recOut' = ParseMetaLine(wireIn)
    /\ cstep' = 1
    /\ UNCHANGED <<cmode, recIn, wireIn, wireOut>>
    /\ UNCHANGED <<extVars, evVars, cfgVars, regVars, hVars, limVars>>

\* ToNetwork on the certificate FromNetwork made.
EncodeDecoded ==
    /\ cmode = "decenc" /\ cstep = 1
    /\ wireOut' = ToNetwork(recOut)
    /\ cstep' = 2
    /\ UNCHANGED <<cmode, recIn, wireIn, recOut>>
    /\ UNCHANGED <<extVars, evVars, cfgVars, regVars, hVars, limVars>>

NextCodec == EncodeLocal \/ DecodeEncoded \/ DecodeWire \/ EncodeDecoded


\* ====================================================== the event pipeline
\* The number of listeners that can be bound to the event kind.
MaxListeners == 3

Priorities == {1, 5, 10}

\* What a listener returns.
ListenerVerdicts == {"Continue", "Deny", "Allow", "Override"}

\* The verdicts that end a raise.
Terminal == {"Deny", "Allow"}

IdleEvent ==
    /\ bound = <<>>
    /\ epc = "idle"
    /\ eidx = 0
    /\ invoked = <<>>
    /\ verdict = "none"
    /\ payload = 0

InitEvent == IdleEvent

InsertAt(seq, i, x) == SubSeq(seq, 1, i - 1) \o <<x>> \o SubSeq(seq, i, Len(seq))

\* The place of a new binding of priority p: behind every binding of a priority at
\* least p, so that higher priorities come first and equal ones in registration order.
BindPos(seq, p) == Cardinality({i \in 1..Len(seq) : seq[i].prio >= p}) + 1

\* A listener of priority p that returns v is bound; the list is not being iterated.
Bind(p, v) ==
    /\ epc = "idle"
    /\ Len(bound) < MaxListeners
    /\ bound' = InsertAt(bound, BindPos(bound, p),
                         [reg |-> Len(bound) + 1, prio |-> p, ret |-> v])
    /\ UNCHANGED <<epc, eidx, invoked, verdict, payload>>
    /\ UNCHANGED <<extVars, codecVars, cfgVars, regVars, hVars, limVars>>

\* raise(event_kind, payload) starts.
RaiseBegin ==
    /\ epc = "idle"
    /\ epc' = "raising"
    /\ eidx' = 1
    /\ UNCHANGED <<bound, invoked, verdict, payload>>
    /\ UNCHANGED <<extVars, codecVars, cfgVars, regVars, hVars, limVars>>

\* A raise that only Deny ends.
InvokeListener_DenyOnly ==
    /\ epc = "raising"
    /\ eidx <= Len(bound)
    /\ invoked' = Append(invoked, bound[eidx].reg)
    /\ payload' = IF bound[eidx].ret = "Override" THEN bound[eidx].reg ELSE payload
    /\ IF bound[eidx].ret = "Deny"
       THEN verdict' = bound[eidx].ret /\ epc' = "done" /\ eidx' = eidx
       ELSE verdict' = verdict /\ epc' = epc /\ eidx' = eidx + 1
    /\ UNCHANGED bound
    /\ UNCHANGED <<extVars, codecVars, cfgVars, regVars, hVars, limVars>>

\* raise invokes the next listener: a terminal verdict ends the raise and is
\* returned, Override replaces the payload, and otherwise the raise goes on.
InvokeListener ==
    /\ epc = "raising"
    /\ eidx <= Len(bound)
    /\ invoked' = Append(invoked, bound[eidx].reg)
    /\ payload' = IF bound[eidx].ret = "Override" THEN bound[eidx].reg ELSE payload
    /\ IF bound[eidx].ret \in Terminal
       THEN verdict' = bound[eidx].ret /\ epc' = "done" /\ eidx' = eidx
       ELSE verdict' = verdict /\ epc' = epc /\ eidx' = eidx + 1
    /\ UNCHANGED bound
    /\ UNCHANGED <<extVars, codecVars, cfgVars, regVars, hVars, limVars>>

\* raise has run every listener and none was terminal: the unhandled verdict.
RaiseEnd ==
    /\ epc = "raising"
    /\ eidx > Len(bound)
    /\ verdict' = "Unhandled"
    /\ epc' = "done"
    /\ UNCHANGED <<bound, eidx, invoked, payload>>
    /\ UNCHANGED <<extVars, codecVars, cfgVars, regVars, hVars, limVars>>

\* The caller has taken the verdict.
RaiseReturn ==
    /\ epc = "done"
    /\ epc' = "idle"
    /\ eidx' = 0
    /\ invoked' = <<>>
    /\ verdict' = "none"
    /\ payload' = 0
    /\ UNCHANGED bound
    /\ UNCHANGED <<extVars, codecVars, cfgVars, regVars, hVars, limVars>>

NextEvent ==
    \/ \E p \in Priorities, v \in ListenerVerdicts : Bind(p, v)
    \/ RaiseBegin
    \/ InvokeListener
    \/ RaiseEnd
    \/ RaiseReturn

\* ================================================ the configuration reload
\* The number of <connect> class tags in a configuration source.
MaxTags == 2

ClassNames == {"a", "b"}

\* The classes a <connect> tag names as its parent ("": none).
ParentNames == {"", "b"}

\* A <connect> tag: its name and its parent.
ClassTags == [name : ClassNames, parent : ParentNames]

\* The configuration sources: at most MaxTags tags.
Sources == {src \in SUBSET ClassTags : Cardinality(src) <= MaxTags}

\* The tags whose parent is no class the configuration defines.
Unresolved(tags) ==
    {t \in tags : t.parent # "" /\ ~\E d \in tags : d.name = t.parent}

NoConfig == [tags |-> {}, classes |-> {}, built |-> FALSE]

\* ServerConfig::Fill: the derived fields of a parsed configuration.
Fill(c) == [c EXCEPT !.classes = {t.name : t \in c.tags}, !.built = TRUE]

NoOutcome == [status |-> "none", errors |-> {}]

\* The number of snapshot objects that can exist at once, and of readers.
MaxSnaps == 3

NumReaders == 2

SnapIds == 1..MaxSnaps

Readers == 1..NumReaders

IdleConfig ==
    /\ current = NoConfig
    /\ candidate = NoConfig
    /\ errstr = {}
    /\ valid = FALSE
    /\ rpc = "idle"
    /\ outcome = NoOutcome
    /\ inflight = 0
    /\ refused = FALSE
    /\ curId = 0
    /\ snapCfg = [i \in SnapIds |-> NoConfig]
    /\ snapRefs = [i \in SnapIds |-> 0]
    /\ snapLive = [i \in SnapIds |-> FALSE]
    /\ reader = [k \in Readers |-> 0]

\* After startup: a configuration that passed its checks is published.
InitConfig ==
    /\ \E src \in Sources : Unresolved(src) = {} /\ current = Fill([NoConfig EXCEPT !.tags = src])
    /\ candidate = NoConfig
    /\ errstr = {}
    /\ valid = FALSE
    /\ rpc = "idle"
    /\ outcome = NoOutcome
    /\ inflight = 0
    /\ refused = FALSE
    /\ curId = 1
    /\ snapCfg = [i \in SnapIds |-> IF i = 1 THEN current ELSE NoConfig]
    /\ snapRefs = [i \in SnapIds |-> IF i = 1 THEN 1 ELSE 0]
    /\ snapLive = [i \in SnapIds |-> i = 1]
    /\ reader = [k \in Readers |-> 0]

\* The snapshot objects: what each holds, its references, and whether it exists.
SnapHeap == [cfg |-> snapCfg, refs |-> snapRefs, live |-> snapLive]

\* A snapshot that is destroyed at once when a reference to it is dropped, whoever
\* else holds it.
DropSnap_Destroy(h, i) ==
    [h EXCEPT !.refs[i] = 0, !.live[i] = FALSE, !.cfg[i] = NoConfig]

\* A reference to snapshot object i is dropped; the object is destroyed with its
\* last reference.
DropSnap(h, i) ==
    IF h.refs[i] - 1 = 0
    THEN [h EXCEPT !.refs[i] = 0, !.live[i] = FALSE, !.cfg[i] = NoConfig]
    ELSE [h EXCEPT !.refs[i] = @ - 1]

\* A new snapshot object i holding configuration c, with the reference of "current".
NewSnap(h, i, c) == [h EXCEPT !.cfg[i] = c, !.refs[i] = 1, !.live[i] = TRUE]

\* The places a new snapshot object can be made at.
FreeSnaps == {i \in SnapIds : ~snapLive[i]}

NewSnapId == CHOOSE i \in FreeSnaps : \A j \in FreeSnaps : i <= j

CommitSnaps(h) ==
    /\ snapCfg' = h.cfg
    /\ snapRefs' = h.refs
    /\ snapLive' = h.live

\* A reload that starts although another one is in flight.
Read_Unserialized(src) ==
    /\ inflight < 2
    /\ candidate' = [NoConfig EXCEPT !.tags = src]
    /\ errstr' = {}
    /\ valid' = TRUE
    /\ rpc' = "read"
    /\ outcome' = NoOutcome
    /\ inflight' = inflight + 1
    /\ refused' = FALSE
    /\ UNCHANGED <<current, curId, snapCfg, snapRefs, snapLive, reader>>
    /\ UNCHANGED <<extVars, codecVars, evVars, regVars, hVars, limVars>>

\* A reload starts, none being in flight: ServerConfig::Read on a new ServerConfig
\* parses the source into the candidate.
Read(src) ==
    /\ rpc = "idle"
    /\ candidate' = [NoConfig EXCEPT !.tags = src]
    /\ errstr' = {}
    /\ valid' = TRUE
    /\ rpc' = "read"
    /\ outcome' = NoOutcome
    /\ inflight' = inflight + 1
    /\ refused' = FALSE
    /\ UNCHANGED <<current, curId, snapCfg, snapRefs, snapLive, reader>>
    /\ UNCHANGED <<extVars, codecVars, evVars, regVars, hVars, limVars>>

\* A reload is requested while one is in flight: it fails at once with an error,
\* and nothing of it is kept.
ReloadRefused ==
    /\ rpc # "idle"
    /\ refused' = TRUE
    /\ UNCHANGED <<current, candidate, errstr, valid, rpc, outcome, inflight,
                   curId, snapCfg, snapRefs, snapLive, reader>>
    /\ UNCHANGED <<extVars, codecVars, evVars, regVars, hVars, limVars>>

\* ServerConfig::CrossCheckConnectBlocks: every unresolved parent adds an error;
\* the candidate is valid iff errstr is empty.
CrossCheckConnectBlocks ==
    /\ rpc = "read"
    /\ errstr' = errstr \cup Unresolved(candidate.tags)
    /\ valid' = (valid /\ errstr \cup Unresolved(candidate.tags) = {})
    /\ rpc' = "checked"
    /\ UNCHANGED <<current, candidate, outcome>>
    /\ UNCHANGED <<inflight, refused, curId, snapCfg, snapRefs, snapLive, reader>>
    /\ UNCHANGED <<extVars, codecVars, evVars, regVars, hVars, limVars>>

\* ServerConfig::Apply of a valid candidate: its derived fields are computed and it
\* is published in one step, as a new snapshot object; "current" drops its reference
\* to the old one.
ApplyPublish ==
    /\ rpc = "checked"
    /\ valid
    /\ FreeSnaps # {}
    /\ current' = Fill(candidate)
    /\ candidate' = NoConfig
    /\ outcome' = [status |-> "ok", errors |-> {}]
    /\ rpc' = "idle"
    /\ inflight' = inflight - 1
    /\ curId' = NewSnapId
    /\ CommitSnaps(DropSnap(NewSnap(SnapHeap, NewSnapId, Fill(candidate)), curId))
    /\ UNCHANGED <<errstr, valid, refused, reader>>
    /\ UNCHANGED <<extVars, codecVars, evVars, regVars, hVars, limVars>>

\* An Apply that publishes the candidate before it looks at valid, and does not
\* put the old configuration back.
ApplyAbort_Publishes ==
    /\ rpc = "checked"
    /\ ~valid
    /\ current' = Fill(candidate)
    /\ candidate' = NoConfig
    /\ outcome' = [status |-> "failed", errors |-> errstr]
    /\ rpc' = "idle"
    /\ inflight' = inflight - 1
    /\ UNCHANGED <<errstr, valid, refused, curId, snapCfg, snapRefs, snapLive, reader>>
    /\ UNCHANGED <<extVars, codecVars, evVars, regVars, hVars, limVars>>

\* ServerConfig::Apply of an invalid candidate: it is dropped and the errors returned.
ApplyAbort ==
    /\ rpc = "checked"
    /\ ~valid
    /\ candidate' = NoConfig
    /\ outcome' = [status |-> "failed", errors |-> errstr]
    /\ rpc' = "idle"
    /\ inflight' = inflight - 1
    /\ UNCHANGED <<current, errstr, valid>>
    /\ UNCHANGED <<refused, curId, snapCfg, snapRefs, snapLive, reader>>
    /\ UNCHANGED <<extVars, codecVars, evVars, regVars, hVars, limVars>>

\* Reader k takes a reference to the current snapshot.
Acquire(k) ==
    /\ reader[k] = 0
    /\ curId # 0
    /\ reader' = [reader EXCEPT ![k] = curId]
    /\ snapRefs' = [snapRefs EXCEPT ![curId] = @ + 1]
    /\ UNCHANGED <<current, candidate, errstr, valid, rpc, outcome, inflight,
                   refused, curId, snapCfg, snapLive>>
    /\ UNCHANGED <<extVars, codecVars, evVars, regVars, hVars, limVars>>

\* Reader k releases its reference.
Release(k) ==
    /\ reader[k] # 0
    /\ reader' = [reader EXCEPT ![k] = 0]
    /\ CommitSnaps(DropSnap(SnapHeap, reader[k]))
    /\ UNCHANGED <<current, candidate, errstr, valid, rpc, outcome, inflight,
                   refused, curId>>
    /\ UNCHANGED <<extVars, codecVars, evVars, regVars, hVars, limVars>>

NextConfig ==
    \/ \E src \in Sources : Read(src)
    \/ ReloadRefused
    \/ CrossCheckConnectBlocks
    \/ ApplyPublish
    \/ ApplyAbort
    \/ \E k \in Readers : Acquire(k)
    \/ \E k \in Readers : Release(k)

\* ============================================================ the handlers
\* tolower, on the letters that occur here.
tolower(c) ==
    CASE c = "T" -> "t" [] c = "R" -> "r" [] c = "U" -> "u" [] c = "S" -> "s"
      [] c = "E" -> "e" [] c = "D" -> "d" [] c = "Y" -> "y" [] c = "O" -> "o"
      [] c = "N" -> "n" [] OTHER -> c

\* stdalgo::string::equalsci
equalsci(a, b) ==
    /\ Len(a) = Len(b)
    /\ \A i \in 1..Len(a) : tolower(a[i]) = tolower(b[i])

\* ConfigTag::getBool(key) on the value v of the key ("" when the key is absent):
\* the true tokens read as true, anything else as the default, false.
getBool(v) ==
    \/ equalsci(v, <<"y", "e", "s">>)
    \/ equalsci(v, <<"t", "r", "u", "e">>)
    \/ equalsci(v, <<"1">>)
    \/ equalsci(v, <<"o", "n">>)

\* irc::spacesepstream(s): the tokens GetToken returns, in order; empty tokens are
\* not returned.
RECURSIVE spacesepstream(_)
spacesepstream(s) ==
    IF s = <<>> THEN <<>>
    ELSE IF Head(s) = " " THEN spacesepstream(Tail(s))
    ELSE LET sp == {i \in 1..Len(s) : s[i] = " "}
             n == IF sp = {} THEN Len(s) + 1
                  ELSE CHOOSE i \in sp : \A j \in sp : i <= j
         IN  <<SubSeq(s, 1, n - 1)>> \o spacesepstream(SubSeq(s, n + 1, Len(s)))

\* irc::sepstream::Contains
SepContains(tokens, value) == \E i \in 1..Len(tokens) : tokens[i] = value

\* MatchFP that looks for the fingerprint anywhere in the list, not among its words.
MatchFP_Substring(c, fp) ==
    \E i \in 1..(Len(fp) + 1), j \in 0..Len(fp) : SubSeq(fp, i, j) = c.fingerprint

\* ModuleSSLInfo::MatchFP
MatchFP(c, fp) == SepContains(spacesepstream(fp), c.fingerprint)

\* ssl_cert::IsUsable and ssl_cert::IsCAVerified
IsUsable(c) == ~c.invalid /\ ~c.revoked /\ c.error = <<>>

IsCAVerified(c) == IsUsable(c) /\ c.trusted /\ ~c.unknownsigner

\* The fingerprint lists of the oper blocks; the first stands for the missing key.
FpLists ==
    << <<>>, <<>>, <<"a">>, <<"b", " ", "a">>, <<"a", "b">>, <<" ", "b", " ", " ">> >>

\* The number of <oper> blocks.
NumOperBlocks == 12

Logins == 0..(NumOperBlocks - 1)

\* ServerConfig::oper_blocks: block l has one of the fingerprint lists or no
\* fingerprint key, and either requires TLS or logs in automatically.
oper_blocks ==
    [l \in Logins |->
        [sslonly |-> l % 2 = 1,
         autologin |-> l % 2 = 0,
         hasfp |-> (l \div 2) % 6 # 0,
         fp |-> FpLists[((l \div 2) % 6) + 1]]]

\* A login name no oper block has.
UnknownLogin == NumOperBlocks

\* ConfigTag::readString("fingerprint", value), its result, and
\* ConfigTag::getString("fingerprint")
readString(ifo) == ifo.hasfp

getString(ifo) == IF ifo.hasfp THEN ifo.fp ELSE <<>>

\* The values of <connect requiressl>; the first is that of a class without the key.
RequireSSL ==
    { <<>>, <<"t", "r", "u", "s", "t", "e", "d">>, <<"T", "r", "u", "s", "t", "e", "d">>, <<"y", "e", "s">>, <<"Y", "E", "S">>, <<"o", "n">>, <<"1">>, <<"n", "o">>, <<"t", "r", "u", "s", "t">> }

\* The fields of the ssl_cert p points to.
Deref(c, p) == c[p]

\* A line written to a user.
Line(u, kind, text) == [to |-> u, kind |-> kind, text |-> text]

\* ModuleSSLInfo::OnPreCommand, what it returns.
OnPreCommandRet(h, c, u, command, validated, login) ==
    IF command = "OPER" /\ validated /\ login \in Logins
    THEN LET ifo == oper_blocks[login]
             crt == GetCertificateRet(h, u)
         IN  IF ifo.sslonly /\ crt = NULL THEN "DENY"
             ELSE IF readString(ifo) /\ (crt = NULL \/ ~MatchFP(Deref(c, crt), ifo.fp))
                  THEN "DENY"
                  ELSE "PASSTHRU"
    ELSE "PASSTHRU"

\* OnSetConnectClass that compares requiressl with "trusted" letter by letter.
OnSetConnectClassRet_CaseSensitive(h, c, u, requiressl) ==
    LET crt == GetCertificateRet(h, u)
    IN  IF requiressl = <<"t", "r", "u", "s", "t", "e", "d">>
        THEN IF crt = NULL \/ ~IsCAVerified(Deref(c, crt)) THEN "DENY" ELSE "PASSTHRU"
        ELSE IF getBool(requiressl)
             THEN IF crt = NULL THEN "DENY" ELSE "PASSTHRU"
             ELSE "PASSTHRU"

\* ModuleSSLInfo::OnSetConnectClass, what it returns.
OnSetConnectClassRet(h, c, u, requiressl) ==
    LET crt == GetCertificateRet(h, u)
    IN  IF equalsci(requiressl, <<"t", "r", "u", "s", "t", "e", "d">>)
        THEN IF crt = NULL \/ ~IsCAVerified(Deref(c, crt)) THEN "DENY" ELSE "PASSTHRU"
        ELSE IF getBool(requiressl)
             THEN IF crt = NULL THEN "DENY" ELSE "PASSTHRU"
             ELSE "PASSTHRU"

\* ModuleSSLInfo::OnPreCommand, the lines it writes: the numeric, the flood
\* penalty and the server notice of a refused OPER.
OnPreCommandLines(h, c, u, command, validated, login) ==
    IF OnPreCommandRet(h, c, u, command, validated, login) = "DENY"
    THEN << Line(u, "ERR_NOOPERHOST", <<>>), Line(u, "CommandFloodPenalty", <<>>),
            Line(u, "SNO", <<>>) >>
    ELSE <<>>

\* ModuleSSLInfo::OnPostConnect reaches its notice: a local user on TLS who is not
\* flagged no_ssl_cert.
OnPostConnectActs(u) == local[u] /\ tls[u] /\ nossl[u] = 0

\* ModuleSSLInfo::OnPostConnect, the notice it writes: the fingerprint is part of it
\* when the transport has a certificate with one.
OnPostConnectLines(c, u) ==
    IF OnPostConnectActs(u)
    THEN << Line(u, "NOTICE",
                 IF tcert[u] # NULL THEN Deref(c, tcert[u]).fingerprint ELSE <<>>) >>
    ELSE <<>>

\* OnPostConnect with a loop that ends at the first oper block that matches.
OnPostConnectOpers_FirstOnly(c, u) ==
    LET all == {l \in Logins : MatchFP(Deref(c, tcert[u]), getString(oper_blocks[l]))
                               /\ oper_blocks[l].autologin}
    IN  IF OnPostConnectActs(u) /\ tcert[u] # NULL
        THEN {l \in all : \A k \in all : l <= k}
        ELSE {}

\* ModuleSSLInfo::OnPostConnect, the oper blocks it calls user->Oper with.
OnPostConnectOpers(c, u) ==
    IF OnPostConnectActs(u) /\ tcert[u] # NULL
    THEN {l \in Logins : MatchFP(Deref(c, tcert[u]), getString(oper_blocks[l]))
                         /\ oper_blocks[l].autologin}
    ELSE {}

\* OnWhois that sends the fingerprint to whoever asks.
OnWhoisLines_NoOperCheck(h, c, src, tgt) ==
    LET crt == GetCertificateRet(h, tgt)
    IN  IF crt = NULL THEN <<>>
        ELSE << Line(src, "RPL_WHOISSECURE", <<>>) >> \o
             ( IF Deref(c, crt).fingerprint # <<>>
               THEN << Line(src, "RPL_WHOISCERTFP", Deref(c, crt).fingerprint) >>
               ELSE <<>> )

\* ModuleSSLInfo::OnWhois, the lines it sends to the source of the whois.
OnWhoisLines(h, c, src, tgt) ==
    LET crt == GetCertificateRet(h, tgt)
    IN  IF crt = NULL THEN <<>>
        ELSE << Line(src, "RPL_WHOISSECURE", <<>>) >> \o
             ( IF (~operonly \/ src = tgt \/ oper[src])
                  /\ Deref(c, crt).fingerprint # <<>>
               THEN << Line(src, "RPL_WHOISCERTFP", Deref(c, crt).fingerprint) >>
               ELSE <<>> )

\* CommandSSLInfo::Handle refuses to look at the target: the nick is unknown or not
\* fully registered (target NULL), or <sslinfo operonly> keeps it from the user.
HandleFails(user, target) ==
    \/ target = NULL
    \/ operonly /\ ~oper[user] /\ target # user

\* CommandSSLInfo::Handle, what it returns.
HandleRet(user, target) == IF HandleFails(user, target) THEN "FAILURE" ELSE "SUCCESS"

\* CommandSSLInfo::Handle, the lines it writes to the user.
HandleLines(h, c, user, target) ==
    IF target = NULL THEN << Line(user, "ERR_NOSUCHNICK", <<>>) >>
    ELSE IF HandleFails(user, target) THEN << Line(user, "NOTICE cannot view", <<>>) >>
    ELSE LET crt == GetCertificateRet(h, target)
         IN  IF crt = NULL THEN << Line(user, "NOTICE not TLS", <<>>) >>
             ELSE IF Len(Deref(c, crt).error) # 0
                  THEN << Line(user, "NOTICE error", Deref(c, crt).error) >>
                  ELSE << Line(user, "NOTICE DN", Deref(c, crt).dn),
                          Line(user, "NOTICE Issuer", Deref(c, crt).issuer),
                          Line(user, "NOTICE Fingerprint", Deref(c, crt).fingerprint) >>

\* The state a handler leaves that changes the extension items through
\* GetCertificate alone.
HandlerCommit(name, g) ==
    /\ hout = NoOutput
    /\ Commit(g, cert)
    /\ last' = Op(name, Heap, g)
    /\ UNCHANGED <<nossl, local, tcert, registered>>
    /\ UNCHANGED <<tls, operonly>>
    /\ UNCHANGED <<codecVars, evVars, cfgVars, regVars, limVars>>

\* OnPreCommand(command, parameters, user, validated); login is parameters[0].
DoOnPreCommand(u, command, validated, login) ==
    /\ registered
    /\ local[u]
    /\ HandlerCommit("OnPreCommand",
                     IF command = "OPER" /\ validated /\ login \in Logins
                     THEN GetCertificate(Heap, u) ELSE Heap)
    /\ hout' = [h |-> "OnPreCommand",
                args |-> <<u, command, validated, login>>,
                ret |-> OnPreCommandRet(Heap, cert, u, command, validated, login),
                lines |-> OnPreCommandLines(Heap, cert, u, command, validated, login),
                opers |-> {}]
    /\ UNCHANGED oper

\* OnSetConnectClass(user, myclass); requiressl is myclass->config's value.
DoOnSetConnectClass(u, requiressl) ==
    /\ registered
    /\ local[u]
    /\ HandlerCommit("OnSetConnectClass", GetCertificate(Heap, u))
    /\ hout' = [h |-> "OnSetConnectClass",
                args |-> <<u, requiressl>>,
                ret |-> OnSetConnectClassRet(Heap, cert, u, requiressl),
                lines |-> <<>>,
                opers |-> {}]
    /\ UNCHANGED oper

\* OnPostConnect(user): user->Oper makes the user an oper.
DoOnPostConnect(u) ==
    /\ registered
    /\ HandlerCommit("OnPostConnect", Heap)
    /\ hout' = [h |-> "OnPostConnect",
                args |-> <<u>>,
                ret |-> "none",
                lines |-> OnPostConnectLines(cert, u),
                opers |-> OnPostConnectOpers(cert, u)]
    /\ oper' = [oper EXCEPT ![u] = @ \/ OnPostConnectOpers(cert, u) # {}]

\* OnWhois(whois) of source src on target tgt.
DoOnWhois(src, tgt) ==
    /\ registered
    /\ HandlerCommit("OnWhois", GetCertificate(Heap, tgt))
    /\ hout' = [h |-> "OnWhois",
                args |-> <<src, tgt>>,
                ret |-> "none",
                lines |-> OnWhoisLines(Heap, cert, src, tgt),
                opers |-> {}]
    /\ UNCHANGED oper

\* OnWhoLine(request, source, user, memb, numeric) of a request with the flags field.
DoOnWhoLine(src, u) ==
    /\ registered
    /\ local[src]
    /\ HandlerCommit("OnWhoLine", GetCertificate(Heap, u))
    /\ hout' = [h |-> "OnWhoLine",
                args |-> <<src, u>>,
                ret |-> "PASSTHRU",
                lines |-> IF GetCertificateRet(Heap, u) # NULL
                          THEN << Line(src, "flag", <<"s">>) >> ELSE <<>>,
                opers |-> {}]
    /\ UNCHANGED oper

\* SSLINFO <nick> by user; target is what FindNick gives, NULL also for a user who
\* is not fully registered.
DoSSLInfo(user, target) ==
    /\ registered
    /\ HandlerCommit("SSLINFO",
                     IF HandleFails(user, target) THEN Heap
                     ELSE GetCertificate(Heap, target))
    /\ hout' = [h |-> "SSLINFO",
                args |-> <<user, target>>,
                ret |-> HandleRet(user, target),
                lines |-> HandleLines(Heap, cert, user, target),
                opers |-> {}]
    /\ UNCHANGED oper

\* The caller has taken what the handler returned and wrote.
HandlerReturn ==
    /\ hout # NoOutput
    /\ hout' = NoOutput
    /\ UNCHANGED <<tls, oper, operonly>>
    /\ UNCHANGED <<extVars, codecVars, evVars, cfgVars, regVars, limVars>>

\* The certificates users have: CA-verified; self-signed; one that failed its
\* verification; a revoked one; one without a fingerprint.
CertSamples ==
    { [invalid |-> FALSE, trusted |-> TRUE, revoked |-> FALSE, unknownsigner |-> FALSE,
       error |-> <<>>, fingerprint |-> <<"a">>, dn |-> <<"b">>, issuer |-> <<"c">>],
      [invalid |-> FALSE, trusted |-> FALSE, revoked |-> FALSE, unknownsigner |-> TRUE,
       error |-> <<>>, fingerprint |-> <<"b">>, dn |-> <<"a">>, issuer |-> <<"a">>],
      [invalid |-> TRUE, trusted |-> FALSE, revoked |-> FALSE, unknownsigner |-> TRUE,
       error |-> <<"e">>, fingerprint |-> <<>>, dn |-> <<>>, issuer |-> <<>>],
      [invalid |-> FALSE, trusted |-> TRUE, revoked |-> TRUE, unknownsigner |-> FALSE,
       error |-> <<>>, fingerprint |-> <<"a">>, dn |-> <<"b">>, issuer |-> <<"c">>],
      [invalid |-> FALSE, trusted |-> TRUE, revoked |-> FALSE, unknownsigner |-> FALSE,
       error |-> <<>>, fingerprint |-> <<>>, dn |-> <<"b">>, issuer |-> <<"c">>] }

\* The certificates of remote users, among them: the CA-verified one and the one
\* that failed its verification.
PeerCertSamples ==
    {c \in CertSamples : (c.fingerprint = <<"a">> /\ ~c.revoked) \/ c.error # <<>>}

\* After connection and peer sync: a local user is on TLS or not, and on TLS its
\* transport holds a certificate or none; a remote user has the certificate its
\* server sent, or none; no local slot is set yet.
InitHandlers ==
    /\ local = [u \in Users |-> u % 2 = 1]
    /\ tls \in [Users -> BOOLEAN]
    /\ \A u \in Users : tls[u] => local[u]
    /\ tcert \in [Users -> {NULL} \cup Recs]
    /\ \A u \in Users : tcert[u] \in {NULL, u} /\ (tcert[u] # NULL => tls[u])
    /\ slot \in [Users -> {NULL} \cup Recs]
    /\ \A u \in Users : slot[u] \in {NULL, u} /\ (local[u] => slot[u] = NULL)
    /\ nossl = [u \in Users |-> 0]
    /\ refcount = [r \in Recs |-> IF r \in Users /\ (tcert[r] = r \/ slot[r] = r)
                                  THEN 1 ELSE 0]
    /\ status = [r \in Recs |-> IF refcount[r] = 1 THEN "live" ELSE "free"]
    /\ cert \in [Recs -> CertSamples \cup {NewCert}]
    /\ \A r \in Recs : (cert[r] = NewCert) <=> (status[r] = "free")
    /\ \A u \in Users : (slot[u] # NULL) => cert[slot[u]] \in PeerCertSamples
    /\ ub = FALSE
    /\ registered = TRUE
    /\ last = NoOp
    /\ oper \in [Users -> BOOLEAN]
    /\ operonly \in BOOLEAN
    /\ hout = NoOutput

\* The handlers of the module, on any user and with any arguments.
NextHandlers ==
    \/ \E u \in Users, command \in {"OPER", "PRIVMSG"}, validated \in BOOLEAN,
          login \in Logins \cup {UnknownLogin} :
            DoOnPreCommand(u, command, validated, login)
    \/ \E u \in Users, requiressl \in RequireSSL : DoOnSetConnectClass(u, requiressl)
    \/ \E u \in Users : DoOnPostConnect(u)
    \/ \E src \in Users, tgt \in Users : DoOnWhois(src, tgt)
    \/ \E src \in Users, u \in Users : DoOnWhoLine(src, u)
    \/ \E user \in Users, target \in Users \cup {NULL} : DoSSLInfo(user, target)
    \/ \E u \in Users, flags \in FlagMaps : OnWebIRCAuth(u, flags)
    \/ \E u \in Users : DoGetCertificate(u)
    \/ HandlerReturn

\* ================================================== the extension registry
\* The modules that register extension items.
Owners == {"m_sslinfo", "m_other"}

\* ExtensionItem::EXT_USER and the other kinds of extensible.
Kinds == {"EXT_USER", "EXT_CHANNEL"}

Descriptors == [owner : Owners, kind : Kinds]

\* find_by_name
find_by_name(reg, n) == reg[n]

\* A register that puts the new descriptor in place of the one a name has already,
\* and reports the collision.
register_Overwrite(reg, n, d) ==
    IF find_by_name(reg, n) # NoDescriptor
    THEN [reg |-> [reg EXCEPT ![n] = d], ret |-> "NameCollision"]
    ELSE [reg |-> [reg EXCEPT ![n] = d], ret |-> "ok"]

\* register(descriptor): the registry it leaves and what it returns.
register(reg, n, d) ==
    IF find_by_name(reg, n) # NoDescriptor
    THEN [reg |-> reg, ret |-> "NameCollision"]
    ELSE [reg |-> [reg EXCEPT ![n] = d], ret |-> "ok"]

\* A module registers an extension item under name n.
DoRegister(n, d) ==
    /\ registry' = register(registry, n, d).reg
    /\ regRet' = register(registry, n, d).ret
    /\ UNCHANGED <<extVars, codecVars, evVars, cfgVars, hVars, limVars>>

\* The module that owns the item of name n unregisters it.
DoUnregister(n) ==
    /\ registry[n] # NoDescriptor
    /\ registry' = [registry EXCEPT ![n] = NoDescriptor]
    /\ regRet' = "none"
    /\ UNCHANGED <<extVars, codecVars, evVars, cfgVars, hVars, limVars>>

NextRegistry ==
    \/ \E n \in ExtNames, d \in Descriptors : DoRegister(n, d)
    \/ \E n \in ExtNames : DoUnregister(n)

\* ========================================================= ServerLimits
\* How many times Finalise is run on one ServerLimits.
MaxFinalise == 3

\* The fields of ServerLimits.
LimitFields == DOMAIN ServerLimits

\* Lengths a configuration gives for a limit, besides the built-in one.
LimitValues == {1, 400}

\* Finalise with MaxModes counted like the other limits.
Finalise_CountsModes(l) == [f \in DOMAIN l |-> l[f] + 1]

\* ServerLimits::Finalise, on the fields l. The fields are size_t; the lengths
\* here stay far below the least range a size_t has, so that ++ is + 1.
Finalise(l) ==
    [l EXCEPT !.NickMax = @ + 1,
              !.ChanMax = @ + 1,
              !.IdentMax = @ + 1,
              !.MaxQuit = @ + 1,
              !.MaxTopic = @ + 1,
              !.MaxKick = @ + 1,
              !.MaxGecos = @ + 1,
              !.MaxAway = @ + 1]

\* A ServerLimits is constructed (with a new ServerConfig).
NewServerLimits ==
    /\ Limits' = ServerLimits
    /\ limitsTag' = ServerLimits
    /\ finalised' = 0
    /\ UNCHANGED <<extVars, codecVars, evVars, cfgVars, regVars, hVars>>

\* Reading the configuration stores another value v in field f, before the
\* limits are finalised.
ReadLimit(f, v) ==
    /\ finalised = 0
    /\ Limits' = [Limits EXCEPT ![f] = v]
    /\ limitsTag' = [limitsTag EXCEPT ![f] = v]
    /\ UNCHANGED finalised
    /\ UNCHANGED <<extVars, codecVars, evVars, cfgVars, regVars, hVars>>

\* Finalise is called on the ServerLimits.
DoFinalise ==
    /\ finalised < MaxFinalise
    /\ Limits' = Finalise(Limits)
    /\ finalised' = finalised + 1
    /\ UNCHANGED limitsTag
    /\ UNCHANGED <<extVars, codecVars, evVars, cfgVars, regVars, hVars>>

InitLimits == IdleLimits

NextLimits ==
    \/ NewServerLimits
    \/ \E f \in LimitFields, v \in LimitValues : ReadLimit(f, v)
    \/ DoFinalise

\* ======================================================== specifications
\* The length limits of a configuration.
InitSpecLimits == IdleExt /\ IdleCodec /\ IdleEvent /\ IdleConfig /\ IdleRegistry /\ IdleHandlers /\ InitLimits

SpecLimits == InitSpecLimits /\ [][NextLimits]_vars

\* The module's handlers on the users.
InitSpecHandlers == InitHandlers /\ IdleCodec /\ IdleEvent /\ IdleConfig /\ IdleRegistry /\ IdleLimits

SpecHandlers == InitSpecHandlers /\ [][NextHandlers]_vars

\* Registering and unregistering extension items.
InitSpecRegistry == IdleExt /\ IdleCodec /\ IdleEvent /\ IdleConfig /\ IdleRegistry /\ IdleHandlers /\ IdleLimits

SpecRegistry == InitSpecRegistry /\ [][NextRegistry]_vars

\* The extension item and the module's handlers on the users.
InitSpec == InitExt /\ IdleCodec /\ IdleEvent /\ IdleConfig /\ IdleRegistry /\ IdleHandlers /\ IdleLimits

Spec == InitSpec /\ [][NextExt]_vars

\* Encoding and decoding one certificate.
InitSpecCodec == IdleExt /\ InitCodec /\ IdleEvent /\ IdleConfig /\ IdleRegistry /\ IdleHandlers /\ IdleLimits

SpecCodec == InitSpecCodec /\ [][NextCodec]_vars

\* Binding listeners and raising the event.
InitSpecEvent == IdleExt /\ IdleCodec /\ InitEvent /\ IdleConfig /\ IdleRegistry /\ IdleHandlers /\ IdleLimits

SpecEvent == InitSpecEvent /\ [][NextEvent]_vars

\* Reloading the configuration.
InitSpecConfig == IdleExt /\ IdleCodec /\ IdleEvent /\ InitConfig /\ IdleRegistry /\ IdleHandlers /\ IdleLimits

SpecConfig == InitSpecConfig /\ [][NextConfig]_vars

\* =========================================================== properties
\* The users whose ssl_cert slot holds r.
Holders(r) == {u \in Users : slot[u] = r}

\* Heaps h and g differ at most in the slot of user u and in the ssl_certs of rs.
SameExcept(h, g, u, rs) ==
    /\ \A w \in Users \ {u} : g.slot[w] = h.slot[w]
    /\ \A r \in Recs \ rs : g.refcount[r] = h.refcount[r] /\ g.status[r] = h.status[r]

\* What set(u, v) is to do, from heap h to heap g: v is stored on u; the ssl_cert u
\* held before is released once, and deleted iff that leaves no reference; v gains
\* one reference, unless u held v already, and then v is as it was.
SetEffect(h, g, u, v) ==
    LET old == h.slot[u]
    IN  /\ g.slot[u] = v
        /\ g.status[v] = "live"
        /\ g.refcount[v] = IF old = v THEN h.refcount[v] ELSE h.refcount[v] + 1
        /\ (old # NULL /\ old # v) =>
              /\ g.refcount[old] = h.refcount[old] - 1
              /\ (g.status[old] = "free") <=> (g.refcount[old] = 0)
        /\ SameExcept(h, g, u, {old, v})
        /\ ~g.ub

\* What releasing the reference of user u is to do, from heap h to heap g: the slot
\* is emptied, the ssl_cert it held loses one reference and is deleted iff none is left.
ReleaseEffect(h, g, u) ==
    LET c == h.slot[u]
    IN  /\ g.slot[u] = NULL
        /\ g.refcount[c] = h.refcount[c] - 1
        /\ (g.status[c] = "free") <=> (g.refcount[c] = 0)
        /\ SameExcept(h, g, u, {c})
        /\ ~g.ub

\* C1, in every state: no use of a deleted ssl_cert and no second delete has
\* happened, every slot holds a live ssl_cert, and the reference count of a live
\* ssl_cert is at least the number of users whose slot holds it.
C1_StateInv ==
    /\ ~ub
    /\ \A u \in Users : slot[u] # NULL => status[slot[u]] = "live"
    /\ \A r \in Recs : status[r] = "live" => refcount[r] >= Cardinality(Holders(r))

\* C1, in every step: an ssl_cert is deleted only by the step that brings its
\* reference count from a positive value to zero.
C1_StepInv ==
    \A r \in Recs : (status[r] = "live" /\ status'[r] = "free") =>
                        (refcount[r] >= 1 /\ refcount'[r] = 0)

\* C1: under any interleaving of set, unset, FromNetwork, the sweep and
\* GetCertificate/SetCertificate, a certificate's reference count is at least the
\* number of slots holding it, no slot holds a destroyed certificate, and a
\* certificate is destroyed only when its last reference is released, never twice.
C1_RefcountSafety == [](C1_StateInv) /\ [][C1_StepInv]_vars

\* C1's case: an operation has just destroyed a certificate while another
\* certificate is held by two users at once.
C1_Witness ==
    /\ last.freed
    /\ \E r \in Recs : status[r] = "live" /\ Cardinality(Holders(r)) >= 2

\* C2: after set(e, v), get(e) returns v; the certificate e held before is released
\* exactly once and destroyed iff that brings its count to zero; and when e already
\* held v, the count of v is unchanged and v is not destroyed. Checked for every
\* call of set: SetCertificate, FromNetwork and the one in GetCertificate.
C2_SetReplaces ==
    [][ /\ \A u \in Users, c \in Recs :
              DoSetCertificate(u, c) => (get(Heap', u) = c /\ SetEffect(Heap, Heap', u, c))
        /\ \A u \in Users, value \in WireSamples :
              DoFromNetwork(u, value) =>
                  SetEffect(new(Heap, NewAddr), Heap', u, NewAddr)
        /\ \A u \in Users :
              (DoGetCertificate(u) /\ GetCertificateSets(Heap, u)) =>
                  SetEffect(Heap, Heap', u, tcert[u])
      ]_vars

\* C2's case: SetCertificate has just replaced the certificate of a user, and the
\* one it replaced was destroyed by that release.
C2_Witness ==
    /\ last.op = "SetCertificate"
    /\ last.freed
    /\ \E u \in Users : slot[u] # NULL

\* C3 as claimed: unset(e) hands the certificate to the caller alive, the reference
\* of e transferred and not released (the count is unchanged).
C3_UnsetTransfersOwnership ==
    [][ \A u \in Users :
          (DoUnset(u) /\ slot[u] # NULL) =>
              /\ slot'[u] = NULL
              /\ status'[slot[u]] = "live"
              /\ refcount'[slot[u]] = refcount[slot[u]]
      ]_vars

\* C3, amended: unset(e) on a user holding c removes c from e and releases the
\* reference of e: the count of c drops by one and c is destroyed iff it reaches
\* zero; nothing is handed to the caller. unset on a user with no payload changes
\* nothing.
C3_UnsetReleases ==
    [][ \A u \in Users :
          DoUnset(u) => IF slot[u] = NULL
                        THEN Heap' = Heap /\ cert' = cert
                        ELSE ReleaseEffect(Heap, Heap', u)
      ]_vars

\* C3's case: unset has just removed the last reference of a certificate, which was
\* destroyed.
C3_Witness ==
    /\ last.op = "unset"
    /\ last.freed

\* A peer-sync value that is no encoding of a certificate: empty, or without a
\* flag cluster, or a flag cluster with no field after it.
Malformed(value) ==
    \/ value = <<>>
    \/ value[1] = " "
    \/ ~Contains(value, " ")

\* C5 as claimed: FromNetwork given a malformed value discards it, and the user's
\* ssl_cert payload is the same certificate with the same reference count as before.
C5_MalformedDiscarded ==
    [][ \A u \in Users, value \in WireSamples :
          (Malformed(value) /\ DoFromNetwork(u, value)) =>
              /\ slot'[u] = slot[u]
              /\ refcount' = refcount
      ]_vars

\* C6: a payload is present only while the extension is registered; the sweep of
\* Unregister leaves get returning none on every user, and has released each
\* certificate once per user that held it (destroying it iff no reference is left).
C6_UnregisterSweeps ==
    /\ [](~registered => \A u \in Users : get(Heap, u) = NULL)
    /\ [][ Unregister =>
             /\ \A u \in Users : get(Heap', u) = NULL
             /\ \A r \in Recs : status[r] = "live" =>
                   /\ refcount'[r] = refcount[r] - Cardinality(Holders(r))
                   /\ (status'[r] = "free") <=> (refcount'[r] = 0)
             /\ ~ub'
         ]_vars

\* C6's case: the extension has just been unregistered while a user held a
\* certificate, and the sweep destroyed it.
C6_Witness ==
    /\ ~registered
    /\ last.op = "Unregister"
    /\ last.freed

\* ------------------------------------------------- the wire encoding
\* C4 as claimed: decoding the encoding of a locally set certificate, names with
\* spaces and certificates with both an error and a fingerprint included, yields a
\* certificate equal to it in all fields.
C4_EncodeDecodeRoundTrip ==
    (cmode = "encdec" /\ cstep = 2) => recOut = recIn

\* The part of s before the first d (all of s when d is not in it).
RECURSIVE Before(_, _)
Before(s, d) ==
    IF s = <<>> \/ Head(s) = d THEN <<>>
    ELSE <<Head(s)>> \o Before(Tail(s), d)

\* The part of s after the first d (nothing when d is not in it).
RECURSIVE After(_, _)
After(s, d) ==
    IF s = <<>> THEN <<>>
    ELSE IF Head(s) = d THEN Tail(s)
    ELSE After(Tail(s), d)

\* The certificate C7 says a peer-sync value decodes to.
Decoded(value) ==
    LET cluster == Before(value, " ")
        rest == After(value, " ")
        isError == Contains(cluster, "E")
    IN  [invalid |-> Contains(cluster, "v"),
         trusted |-> Contains(cluster, "T"),
         revoked |-> Contains(cluster, "R"),
         unknownsigner |-> Contains(cluster, "s"),
         error |-> IF isError THEN Before(rest, "\n") ELSE <<>>,
         fingerprint |-> IF isError THEN <<>> ELSE Before(rest, " "),
         dn |-> IF isError THEN <<>> ELSE Before(After(rest, " "), " "),
         issuer |-> IF isError THEN <<>>
                    ELSE Before(After(After(rest, " "), " "), "\n")]

\* C7: FromNetwork takes the first space-delimited token as the flag cluster; with
\* an 'E' in it the rest up to a newline is the error and the other fields stay
\* empty; without, the next two space-delimited fields are fingerprint and DN, the
\* rest up to a newline is the issuer and the error stays empty; what the peer did
\* not send is empty; invalid iff 'v', trusted iff 'T', revoked iff 'R',
\* unknownsigner iff 's'.
C7_DecodeForms ==
    (cmode = "decenc" /\ cstep >= 1) => recOut = Decoded(wireIn)

\* C7's case: a full-detail value has been decoded into a trusted certificate with
\* a fingerprint, a DN and an issuer, and no error.
C7_Witness ==
    /\ cmode = "decenc" /\ cstep = 1
    /\ recOut.trusted /\ ~recOut.invalid
    /\ recOut.fingerprint # <<>> /\ recOut.dn # <<>> /\ recOut.issuer # <<>>
    /\ recOut.error = <<>>

\* The canonical wire strings: the five-letter flag cluster, a space, and then a
\* non-empty error (cluster with 'E') or fingerprint, DN and issuer separated by two
\* spaces (cluster with 'e'); no newline.
Canonical(s) ==
    /\ Len(s) >= 6
    /\ s[1] \in {"v", "V"} /\ s[2] \in {"T", "t"} /\ s[3] \in {"R", "r"}
    /\ s[4] \in {"s", "S"} /\ s[5] \in {"E", "e"}
    /\ s[6] = " "
    /\ ~Contains(s, "\n")
    /\ IF s[5] = "E"
       THEN Len(s) >= 7
       ELSE Cardinality({i \in 7..Len(s) : s[i] = " "}) >= 2

\* C8: encoding the certificate that a canonical wire string decodes to yields the
\* string again.
C8_DecodeEncodeRoundTrip ==
    (cmode = "decenc" /\ cstep = 2 /\ Canonical(wireIn)) => wireOut = wireIn

\* C8's case: a canonical full-detail string with an issuer has been decoded and
\* encoded again.
C8_Witness ==
    /\ cmode = "decenc" /\ cstep = 2
    /\ Canonical(wireIn)
    /\ wireIn[5] = "e"
    /\ recOut.fingerprint # <<>> /\ recOut.issuer # <<>>
    /\ wireOut = wireIn

\* -------------------------------------------------- the event pipeline
\* The bindings are in priority order, equal priorities in registration order.
Ordered(seq) ==
    \A i, j \in 1..Len(seq) :
        i < j => \/ seq[i].prio > seq[j].prio
                 \/ seq[i].prio = seq[j].prio /\ seq[i].reg < seq[j].reg

\* The positions of the bindings whose listener returns a terminal verdict.
TerminalAt(seq) == {i \in 1..Len(seq) : seq[i].ret \in Terminal}

\* The listeners of the example: L1 (10, Continue), L2 (5, Deny), L3 (1, Allow).
IsExample(seq) ==
    /\ Len(seq) = 3
    /\ seq[1].prio = 10 /\ seq[1].ret = "Continue"
    /\ seq[2].prio = 5 /\ seq[2].ret = "Deny"
    /\ seq[3].prio = 1 /\ seq[3].ret = "Allow"

\* C9: raise invokes the listeners in priority order (equal priorities in
\* registration order), each at most once, and none after a listener that returned
\* Deny or Allow; it returns the verdict of that listener, or, when every listener
\* has been invoked and none was terminal, the unhandled verdict. With L1 (10,
\* Continue), L2 (5, Deny), L3 (1, Allow) it returns Deny and L3 is not invoked.
C9_RaiseOrderShortCircuit ==
    /\ Ordered(bound)
    /\ Len(invoked) <= Len(bound)
    /\ \A i \in 1..Len(invoked) : invoked[i] = bound[i].reg
    /\ \A i \in 1..Len(invoked) : i < Len(invoked) => bound[i].ret \notin Terminal
    /\ epc = "done" =>
          IF TerminalAt(bound) = {}
          THEN verdict = "Unhandled" /\ Len(invoked) = Len(bound)
          ELSE /\ Len(invoked) \in TerminalAt(bound)
               /\ verdict = bound[Len(invoked)].ret
    /\ (epc = "done" /\ IsExample(bound)) =>
          (verdict = "Deny" /\ \A i \in 1..Len(invoked) : invoked[i] # bound[3].reg)

\* C9's case: the raise over L1, L2, L3 has ended, two listeners were invoked.
C9_Witness ==
    /\ epc = "done"
    /\ IsExample(bound)
    /\ Len(invoked) = 2
    /\ verdict = "Deny"

\* ------------------------------------------------------- the reload
\* C10: a reload whose candidate fails a cross-check (a class reference that
\* resolves to no defined class) leaves the published snapshot current and
\* unchanged and returns the non-empty list of all the errors; the candidate is
\* current in no state of that reload: current changes only when a candidate
\* without unresolved references is published.
C10_FailedReloadKeepsCurrent ==
    /\ [](rpc = "checked" => (valid <=> Unresolved(candidate.tags) = {}))
    /\ [](current.built /\ Unresolved(current.tags) = {})
    /\ [][ /\ (rpc # "idle" /\ Unresolved(candidate.tags) # {}) => current' = current
           /\ (rpc = "checked" /\ rpc' = "idle" /\ Unresolved(candidate.tags) # {}) =>
                 /\ outcome'.status = "failed"
                 /\ outcome'.errors # {}
                 /\ outcome'.errors = Unresolved(candidate.tags)
           /\ current' # current =>
                 (rpc = "checked" /\ Unresolved(candidate.tags) = {}
                  /\ current'.tags = candidate.tags)
         ]_vars

\* C10's case: a reload has just failed with its errors returned, while a
\* configuration that defines classes is published.
C10_Witness ==
    /\ rpc = "idle"
    /\ outcome.status = "failed"
    /\ outcome.errors # {}
    /\ current.tags # {}

\* C11: a reader that holds a reference to a snapshot goes on observing that
\* snapshot's tags and derived fields, whatever is published meanwhile, until it
\* releases the reference: the snapshot it holds exists, is counted, holds a
\* configuration whose derived fields agree with its tags, and no step changes it
\* or destroys it while the reader keeps the reference.
C11_SnapshotIsolation ==
    /\ [](\A k \in Readers : reader[k] # 0 =>
             /\ snapLive[reader[k]]
             /\ snapRefs[reader[k]] >= Cardinality({j \in Readers : reader[j] = reader[k]})
             /\ snapCfg[reader[k]] = Fill(snapCfg[reader[k]]))
    /\ [](curId # 0 => snapLive[curId] /\ snapCfg[curId] = current)
    /\ [][ \A k \in Readers : (reader[k] # 0 /\ reader'[k] = reader[k]) =>
              /\ snapLive'[reader[k]]
              /\ snapCfg'[reader[k]] = snapCfg[reader[k]]
         ]_vars

\* C11's case: a reader holds a snapshot that is no longer the published one, and
\* the two hold different tags.
C11_Witness ==
    \E k \in Readers :
        /\ reader[k] # 0
        /\ reader[k] # curId
        /\ snapCfg[reader[k]].tags # current.tags
        /\ outcome.status = "ok"

\* C12: at most one reload is in flight; a reload requested while one is in flight
\* fails at once, starts nothing and is not kept for later, and changes neither
\* the current snapshot nor the reload in flight; a reload starts only from rest.
C12_ReloadSerialized ==
    /\ [](inflight <= 1 /\ (inflight = 1 <=> rpc # "idle"))
    /\ [][ /\ ReloadRefused =>
                /\ rpc # "idle"
                /\ refused'
                /\ UNCHANGED <<current, candidate, errstr, valid, rpc, outcome,
                               inflight, curId, snapCfg, snapRefs, snapLive>>
           /\ inflight' > inflight => (rpc = "idle" /\ inflight = 0)
           /\ (rpc # "idle" /\ candidate' # candidate) => rpc' = "idle"
         ]_vars

\* C12's case: a reload was refused while another was in flight, and that one has
\* then been published.
C12_Witness ==
    /\ refused
    /\ rpc = "idle"
    /\ outcome.status = "ok"
    /\ inflight = 0

\* ------------------------------------------------------ the registry
\* C13: register under a name that is in use returns NameCollision and leaves the
\* registry as it was, the name still resolving to its first owner; register under
\* a free name succeeds and adds that descriptor alone, so that two distinct names
\* (ssl_cert and no_ssl_cert) are both registered.
C13_NameCollision ==
    [][ \A n \in ExtNames, d \in Descriptors :
          DoRegister(n, d) =>
              IF registry[n] # NoDescriptor
              THEN /\ regRet' = "NameCollision"
                   /\ registry' = registry
                   /\ find_by_name(registry', n) = registry[n]
              ELSE /\ regRet' = "ok"
                   /\ find_by_name(registry', n) = d
                   /\ \A m \in ExtNames \ {n} : registry'[m] = registry[m]
      ]_vars

\* C13's case: ssl_cert and no_ssl_cert are both registered by m_sslinfo, and
\* another module's register under one of the two names has just been refused.
C13_Witness ==
    /\ regRet = "NameCollision"
    /\ registry["ssl_cert"] = [owner |-> "m_sslinfo", kind |-> "EXT_USER"]
    /\ registry["no_ssl_cert"] = [owner |-> "m_sslinfo", kind |-> "EXT_USER"]

\* ------------------------------------------------------- the handlers
\* fp is one of the words of the space-separated list.
InList(fp, list) ==
    /\ fp # <<>>
    /\ ~Contains(fp, " ")
    /\ \E i \in 1..Len(list), j \in 1..Len(list) :
          /\ i <= j
          /\ SubSeq(list, i, j) = fp
          /\ (i = 1 \/ list[i - 1] = " ")
          /\ (j = Len(list) \/ list[j + 1] = " ")

\* The user has a certificate: GetCertificate returns one; CertificateOf is it.
HasCertificate(u) == GetCertificateRet(Heap, u) # NULL

CertificateOf(u) == cert[GetCertificateRet(Heap, u)]

\* The case in which C14 says OnPreCommand denies.
OperDenied(u, command, validated, login) ==
    /\ command = "OPER"
    /\ validated
    /\ login \in Logins
    /\ \/ oper_blocks[login].sslonly /\ ~HasCertificate(u)
       \/ /\ oper_blocks[login].hasfp
          /\ \/ ~HasCertificate(u)
             \/ ~InList(CertificateOf(u).fingerprint, oper_blocks[login].fp)

\* C14: OnPreCommand returns DENY iff the command is OPER, validated is true, an
\* oper block of that login exists, and the block has sslonly and the user has no
\* certificate, or the block defines a fingerprint and the user has no certificate
\* or one whose fingerprint is not a word of the configured list; else PASSTHRU.
\* (The handler leaves unchanged what GetCertificate returns for the user.)
C14_OnPreCommandDeny ==
    hout.h = "OnPreCommand" =>
        hout.ret = IF OperDenied(hout.args[1], hout.args[2], hout.args[3], hout.args[4])
                   THEN "DENY" ELSE "PASSTHRU"

\* C14's case: OPER was denied to a user who has a certificate with a fingerprint,
\* under a login whose block lists fingerprints.
C14_Witness ==
    /\ hout.h = "OnPreCommand"
    /\ hout.ret = "DENY"
    /\ HasCertificate(hout.args[1])
    /\ CertificateOf(hout.args[1]).fingerprint # <<>>
    /\ Len(oper_blocks[hout.args[4]].fp) > 1

\* s in lower case.
Lower(s) == [i \in 1..Len(s) |-> tolower(s[i])]

\* The case in which C15 says OnSetConnectClass denies.
ClassDenied(u, requiressl) ==
    \/ /\ Lower(requiressl) = <<"t", "r", "u", "s", "t", "e", "d">>
       /\ (~HasCertificate(u) \/ ~IsCAVerified(CertificateOf(u)))
    \/ /\ Lower(requiressl) # <<"t", "r", "u", "s", "t", "e", "d">>
       /\ Lower(requiressl) \in {<<"y", "e", "s">>, <<"t", "r", "u", "e">>, <<"1">>, <<"o", "n">>}
       /\ ~HasCertificate(u)

\* C15: OnSetConnectClass returns DENY iff requiressl is "trusted" in any case and
\* the user has no certificate or one that is not CA-verified, or requiressl is not
\* "trusted", reads as true, and the user has no certificate; else PASSTHRU, so a
\* class without requiressl is never denied.
C15_OnSetConnectClassDeny ==
    hout.h = "OnSetConnectClass" =>
        /\ hout.ret = IF ClassDenied(hout.args[1], hout.args[2])
                      THEN "DENY" ELSE "PASSTHRU"
        /\ hout.args[2] = <<>> => hout.ret = "PASSTHRU"

\* C15's case: a class that requires a trusted certificate, written in another
\* case, was denied to a user whose certificate is not CA-verified.
C15_Witness ==
    /\ hout.h = "OnSetConnectClass"
    /\ hout.ret = "DENY"
    /\ hout.args[2] = <<"T", "r", "u", "s", "t", "e", "d">>
    /\ HasCertificate(hout.args[1])

\* The certificate details a user could have instead of its own.
AltDetails ==
    [fingerprint : {<<>>, <<"a">>, <<"b">>}, dn : {<<"a">>, <<"b">>},
     issuer : {<<"a">>, <<"c">>}]

\* The certificates as they would be if the one of user tgt had the details d.
WithDetails(tgt, d) ==
    IF HasCertificate(tgt)
    THEN [cert EXCEPT ![GetCertificateRet(Heap, tgt)] =
              [@ EXCEPT !.fingerprint = d.fingerprint, !.dn = d.dn, !.issuer = d.issuer]]
    ELSE cert

\* The request that has just been served came from a user who is not an oper and
\* was about another user, while <sslinfo operonly> is true.
NonOperAboutOther ==
    /\ operonly
    /\ hout.args[2] # NULL
    /\ hout.args[1] # hout.args[2]
    /\ ~oper[hout.args[1]]

\* C16, of SSLINFO that has just been served: refused to a non-oper asking about
\* another user, with no certificate detail in what was written.
C16_SSLInfoInv ==
    (hout.h = "SSLINFO" /\ NonOperAboutOther) =>
        /\ hout.ret = "FAILURE"
        /\ \A i \in 1..Len(hout.lines) : hout.lines[i].text = <<>>
        /\ \A d \in AltDetails :
              hout.lines = HandleLines(Heap, WithDetails(hout.args[2], d),
                                       hout.args[1], hout.args[2])

\* C16, of WHOIS that has just been served: the fingerprint line goes to the user
\* itself or to an oper only, and a non-oper gets about another user what it would
\* get whatever that user's details were.
C16_WhoisInv ==
    hout.h = "OnWhois" =>
        /\ (\E i \in 1..Len(hout.lines) : hout.lines[i].kind = "RPL_WHOISCERTFP")
              => (~operonly \/ hout.args[1] = hout.args[2] \/ oper[hout.args[1]])
        /\ NonOperAboutOther =>
              (\A d \in AltDetails :
                  hout.lines = OnWhoisLines(Heap, WithDetails(hout.args[2], d),
                                            hout.args[1], hout.args[2]))

\* C16: with <sslinfo operonly> true, SSLINFO by a non-oper on another user returns
\* FAILURE with no certificate detail written and no certificate looked up; WHOIS
\* sends the fingerprint line only to the user itself or to an oper; and what the
\* non-oper receives about the other user is what it would receive whatever that
\* user's fingerprint, DN and issuer were.
C16_OperOnlyHidesCertificates ==
    /\ [](C16_SSLInfoInv /\ C16_WhoisInv)
    /\ [][ \A user \in Users, target \in Users :
             (DoSSLInfo(user, target) /\ operonly /\ ~oper[user] /\ target # user) =>
                 (Heap' = Heap /\ cert' = cert)
         ]_vars

\* C16's case: with operonly true, a user who is not an oper has asked WHOIS about
\* another user whose certificate has a fingerprint, and got the secure-connection
\* line alone.
C16_Witness ==
    /\ hout.h = "OnWhois"
    /\ NonOperAboutOther
    /\ HasCertificate(hout.args[2])
    /\ CertificateOf(hout.args[2]).fingerprint # <<>>
    /\ Len(hout.lines) = 1

\* C17, in every state: a user flagged no_ssl_cert has no ssl_cert payload, and
\* GetCertificate returns none for it, whatever its transport holds; OnPostConnect
\* on it has written nothing and called user->Oper with no block.
C17_StateInv ==
    /\ \A u \in Users : nossl[u] # 0 => (slot[u] = NULL /\ ~HasCertificate(u))
    /\ (hout.h = "OnPostConnect" /\ nossl[hout.args[1]] # 0) =>
          (hout.lines = <<>> /\ hout.opers = {})

\* C17, in every step: the flag stays, and OnWebIRCAuth on a flagged user, with or
\* without "secure", changes nothing of the extension items.
C17_StepInv ==
    \A u \in Users : nossl[u] # 0 =>
        /\ nossl'[u] = nossl[u]
        /\ \A flags \in FlagMaps :
              OnWebIRCAuth(u, flags) => (Heap' = Heap /\ cert' = cert /\ nossl' = nossl)

\* C17: once OnWebIRCAuth has marked a user insecure, in every later state that the
\* module's handlers reach, no_ssl_cert stays set, the user has no certificate
\* although the transport has one, a later OnWebIRCAuth changes nothing, and
\* OnPostConnect sends no notice and performs no auto-oper.
C17_InsecureStaysWithoutCertificate == [](C17_StateInv) /\ [][C17_StepInv]_vars

\* C17's case: OnPostConnect has just run on a user that OnWebIRCAuth marked insecure
\* and whose transport holds a certificate that an autologin block lists.
C17_Witness ==
    /\ hout.h = "OnPostConnect"
    /\ nossl[hout.args[1]] # 0
    /\ tcert[hout.args[1]] # NULL
    /\ \E l \in Logins : /\ oper_blocks[l].autologin
                         /\ InList(cert[tcert[hout.args[1]]].fingerprint, oper_blocks[l].fp)

\* The oper blocks C20 says OnPostConnect logs user u in with.
AutoOperBlocks(u) ==
    {l \in Logins : /\ local[u]
                    /\ tls[u]
                    /\ nossl[u] = 0
                    /\ tcert[u] # NULL
                    /\ oper_blocks[l].autologin
                    /\ oper_blocks[l].hasfp
                    /\ InList(cert[tcert[u]].fingerprint, oper_blocks[l].fp)}

\* C20: OnPostConnect calls user->Oper exactly with the blocks that have autologin
\* and list the fingerprint of the transport's certificate, every one of them, and
\* only for a local user on TLS who is not flagged no_ssl_cert and whose transport
\* has a certificate; never for a remote user.
C20_AutoOper ==
    hout.h = "OnPostConnect" =>
        /\ hout.opers = AutoOperBlocks(hout.args[1])
        /\ ~local[hout.args[1]] => hout.opers = {}

\* C20's case: OnPostConnect has logged a user in with two oper blocks.
C20_Witness ==
    /\ hout.h = "OnPostConnect"
    /\ Cardinality(hout.opers) >= 2
    /\ oper[hout.args[1]]

\* ------------------------------------------ OnWebIRCAuth, GetCertificate
\* Nothing of the extension items changes in the step.
ExtUntouched ==
    /\ slot' = slot
    /\ nossl' = nossl
    /\ refcount' = refcount
    /\ status' = status
    /\ cert' = cert
    /\ ~ub'

\* The ssl_cert that user u's slot held is released in the step (once; deleted iff
\* that was its last reference); when the slot held none, the certificate the
\* user had is the transport's, and its count is as before.
PreviousReleased(u) ==
    IF slot[u] # NULL
    THEN /\ refcount'[slot[u]] = refcount[slot[u]] - 1
         /\ (status'[slot[u]] = "free") <=> (refcount'[slot[u]] = 0)
    ELSE /\ refcount'[tcert[u]] = refcount[tcert[u]]
         /\ status'[tcert[u]] = "live"

\* C18: OnWebIRCAuth changes a user's extension state only when flags is not null
\* and the user has a certificate. Then, without "secure", no_ssl_cert becomes 1 and
\* the ssl_cert payload is removed and released; with "secure", the payload becomes
\* a new ssl_cert with an error, invalid, revoked and unknownsigner true and trusted
\* false, the previous one is released, and no_ssl_cert is unchanged.
C18_WebIRCAuthFrame ==
    [][ \A u \in Users, flags \in FlagMaps :
          OnWebIRCAuth(u, flags) =>
              IF flags = "null" \/ ~HasCertificate(u)
              THEN ExtUntouched
              ELSE IF flags = "insecure"
              THEN /\ nossl' = [nossl EXCEPT ![u] = 1]
                   /\ slot' = [slot EXCEPT ![u] = NULL]
                   /\ PreviousReleased(u)
                   /\ SameExcept(Heap, Heap', u, {slot[u]})
                   /\ ~ub'
              ELSE /\ nossl' = nossl
                   /\ slot'[u] # NULL
                   /\ status[slot'[u]] = "free"
                   /\ status'[slot'[u]] = "live"
                   /\ refcount'[slot'[u]] = 1
                   /\ cert'[slot'[u]].error # <<>>
                   /\ cert'[slot'[u]].invalid
                   /\ cert'[slot'[u]].revoked
                   /\ cert'[slot'[u]].unknownsigner
                   /\ ~cert'[slot'[u]].trusted
                   /\ PreviousReleased(u)
                   /\ SameExcept(Heap, Heap', u, {slot[u], slot'[u]})
                   /\ ~ub'
      ]_vars

\* C18's case: OnWebIRCAuth with "secure" has just replaced a certificate by the
\* made-up one, and the replaced one was deleted with its last reference.
C18_Witness ==
    /\ last.op = "OnWebIRCAuth"
    /\ last.freed
    /\ \E u \in Users : slot[u] # NULL /\ cert[slot[u]] = WebIRCCert /\ nossl[u] = 0

\* C19, in every step of GetCertificate: it returns the ssl_cert in the slot when
\* one is set; else none, changing nothing, for a user who is not local or is
\* flagged no_ssl_cert, or whose transport has none; else it stores the transport's
\* certificate in the slot, with one more reference, and returns it.
C19_StepInv ==
    \A u \in Users :
        DoGetCertificate(u) =>
            IF slot[u] # NULL
            THEN GetCertificateRet(Heap, u) = slot[u] /\ ExtUntouched
            ELSE IF ~local[u] \/ nossl[u] # 0 \/ tcert[u] = NULL
            THEN GetCertificateRet(Heap, u) = NULL /\ ExtUntouched
            ELSE /\ GetCertificateRet(Heap, u) = tcert[u]
                 /\ slot' = [slot EXCEPT ![u] = tcert[u]]
                 /\ refcount' = [refcount EXCEPT ![tcert[u]] = @ + 1]
                 /\ status' = status
                 /\ nossl' = nossl
                 /\ GetCertificateRet(Heap', u) = tcert[u]

\* C19: GetCertificate returns the slot's ssl_cert when set; otherwise none without
\* a change for a remote user or one flagged no_ssl_cert; otherwise it stores the
\* transport's certificate (one more reference) and returns it, and from then on it
\* returns what the slot holds until the slot is unset or replaced.
C19_GetCertificateCaches ==
    /\ [](\A u \in Users : slot[u] # NULL => GetCertificateRet(Heap, u) = slot[u])
    /\ [][C19_StepInv]_vars

\* C19's case: GetCertificate has just stored the transport's certificate on a
\* user, so that the transport and the slot both refer to it.
C19_Witness ==
    /\ last.op = "GetCertificate"
    /\ \E u \in Users : slot[u] # NULL /\ slot[u] = tcert[u] /\ refcount[slot[u]] = 2

\* --------------------------------------------------------- ServerLimits
\* The limits Finalise adds one to.
FinalisedFields == LimitFields \ {"MaxModes"}

\* C21, in every state: a limit is its configured value plus the number of Finalise
\* calls on this ServerLimits, and MaxModes is its configured value.
C21_StateInv ==
    /\ \A f \in FinalisedFields : Limits[f] = limitsTag[f] + finalised
    /\ Limits.MaxModes = limitsTag.MaxModes

\* C21, in every step: construction stores the nine built-in values; Finalise adds
\* one to eight limits and keeps MaxModes, and running it again changes them again.
C21_StepInv ==
    /\ NewServerLimits =>
          /\ Limits'.NickMax = 31
          /\ Limits'.ChanMax = 64
          /\ Limits'.MaxModes = 20
          /\ Limits'.IdentMax = 12
          /\ Limits'.MaxQuit = 255
          /\ Limits'.MaxTopic = 307
          /\ Limits'.MaxKick = 255
          /\ Limits'.MaxGecos = 128
          /\ Limits'.MaxAway = 200
    /\ DoFinalise =>
          /\ Limits'.NickMax = Limits.NickMax + 1
          /\ Limits'.ChanMax = Limits.ChanMax + 1
          /\ Limits'.IdentMax = Limits.IdentMax + 1
          /\ Limits'.MaxQuit = Limits.MaxQuit + 1
          /\ Limits'.MaxTopic = Limits.MaxTopic + 1
          /\ Limits'.MaxKick = Limits.MaxKick + 1
          /\ Limits'.MaxGecos = Limits.MaxGecos + 1
          /\ Limits'.MaxAway = Limits.MaxAway + 1
          /\ Limits'.MaxModes = Limits.MaxModes
          /\ Finalise(Limits') # Limits'

\* C21: a new ServerLimits holds NickMax 31, ChanMax 64, MaxModes 20, IdentMax 12,
\* MaxQuit 255, MaxTopic 307, MaxKick 255, MaxGecos 128, MaxAway 200; each Finalise
\* adds one to all of them but MaxModes, which it leaves alone, so that Finalise is
\* not idempotent and a limit is its configured value plus the number of calls.
C21_FinaliseAddsOne ==
    /\ [](C21_StateInv)
    /\ [][C21_StepInv]_vars

\* C21's case: Finalise has run twice on a ServerLimits whose nickname limit is the
\* built-in one and whose channel limit was configured.
C21_Witness ==
    /\ finalised = 2
    /\ limitsTag.NickMax = 31
    /\ Limits.NickMax = 33
    /\ limitsTag.ChanMax = 400
    /\ Limits.ChanMax = 402
    /\ Limits.MaxModes = 20

====
